---- MODULE Spec2Model ----
(***************************************************************************)
(* A model of the worker-protocol client and the WebSocket session         *)
(* registry of bp-api-service-rust.                                        *)
(*                                                                         *)
(* The repository holds two BPRequestClient implementations:               *)
(*   "listen"          src/src/clients/bp_request_client.rs                *)
(*                     (listen / handshake / listen_stream_response / send)*)
(*   "handle_response" src/src/clients/bp_request_client/mod.rs            *)
(*                     (handle_response / handshake / ping /               *)
(*                      handle_bytes_read / send_remove_task)              *)
(* three session registries:                                               *)
(*   "WsClients"            src/src/api/ws_clients.rs                      *)
(*   "WebSocketConnections" src/src/main.rs (+ broadcast_ws in handlers.rs)*)
(*   "ws_sessions"          src/src/implementations/websocket.rs           *)
(* and two task orchestrators:                                             *)
(*   "api"  src/src/api/task.rs (handle_process_image_command, send,       *)
(*          handle_response_received_from_bp_server)                       *)
(*   "ws"   src/src/implementations/websocket.rs (handle_received_message, *)
(*          send_new_task_to_bp_server), src/src/main.rs                   *)
(*          (new_image_uploaded) and bp_request_client/handlers.rs         *)
(* The variable client / registry / orch says which implementation a       *)
(* behaviour runs; it is chosen in the initial state and never changes.    *)
(***************************************************************************)
EXTENDS Naturals, Integers, Sequences, FiniteSets, TLC

\* ------------------------------------------------------------ bounds
\* connection attempts the connection loop makes in one behaviour
MaxAttempts == 2
\* frames the worker writes to the client in one behaviour
MaxFrames == 2
\* send() / send_remove_task() calls in one behaviour
MaxSends == 2

\* subscribe, unsubscribe and broadcast calls in one behaviour
MaxRegOps == 4
\* 'process' commands and worker events received in one behaviour
MaxTaskOps == 2
\* store and file failures and changes of the worker link in one behaviour
MaxFaults == 1

Senders == {"s1", "s2"}
Groups == {"G", "H"}
\* a handle is a WebSocket value: clones of one session share its uid
Handles == {[uid |-> "a", clone |-> 1], [uid |-> "a", clone |-> 2],
            [uid |-> "b", clone |-> 1]}
Uids == {h.uid : h \in Handles}
Messages == {"m1", "m2"}
FrameKinds == {"normal", "badjson", "ping", "garbage"}
\* the stored tasks, and a key that no stored task has
Keys == {"T1", "T2"}
NoKey == "T0"
\* task_group of each stored task
Owner == [k \in Keys |-> IF k = "T1" THEN "G" ELSE "H"]
\* concurrent WebSocket message handlers
Callers == {"d1", "d2"}
LinkStates == {"connected", "absent", "dead", "busy"}
\* what the "key" of a command or the "task_id" of an event can be besides
\* a UUID: the field is not there, or it is no UUID
NoField == "absent"
Malformed == "malformed"
\* the "status" of a worker event: the three the handlers know, one they do
\* not, and none
Statuses == {"success", "progress_update", "failed", "weird_value", NoField}
\* its "status_code": none, fake_process_completed, or any other
StatusCodes == {NoField, "fake_process_completed", "some"}
\* its "message" text
Texts == {"e1", "e2"}
\* the attachments it can carry: none, image and mask, image, mask and preview
FileCounts == {0, 2, 3}
\* the worker events of a behaviour: attachments come with success events,
\* which are sent for every task_id with all three attachments and for T1 in
\* every shape; the other events are sent for T1 with a status code, failed
\* ones with either text; one event has no status
Events ==
  {e \in [key : Keys \cup {NoKey, Malformed, NoField}, status : Statuses,
          code : StatusCodes, files : FileCounts, text : Texts] :
     \/ /\ e.status = "success" /\ e.text = "e1"
        /\ \/ e.code = "some" /\ e.files = 3
           \/ e.key = "T1" /\ e.files \in {2, 3}
     \/ /\ e.status \in {"progress_update", "weird_value"}
        /\ e.key = "T1" /\ e.code = "some" /\ e.files = 0 /\ e.text = "e1"
     \/ e.status = "failed" /\ e.key = "T1" /\ e.code = "some" /\ e.files = 0
     \/ /\ e.status = NoField
        /\ e.key = "T1" /\ e.code = "some" /\ e.files = 0 /\ e.text = "e1"}

VARIABLES
  \* ---- worker-protocol client
  client,        \* "listen" | "handle_response"
  secret,        \* BP_SERVER_AUTH_TOKEN is set in the environment
  loopPc,        \* position of the spawned connection loop
  cur,           \* the loop's local stream (id of the transport), 0 before any
  curUp,         \* the transport cur is still usable
  holder,        \* stream_holder / tx_tcp_stream: 0 is None, else a transport id
  lockOwner,     \* who holds the mutex around holder
  writing,       \* writes in progress: records [who, t]
  firstWritten,  \* the first frame completely written on transport cur
  hsWritten,     \* handshake messages completely written on transport cur
  inbox,         \* frames the worker wrote on cur that are not yet read
  nPing,         \* live keepalive tasks (handle_response only)
  senderPc,      \* per caller of send(): "idle" | "called" | "writing"
  lastRes,       \* result of the send() that returned last
  \* ---- history of the client
  senderAt,      \* per caller, while it writes: loopPc when send() read holder
  lastResLive,   \* the send() that returned last read holder while Connected
                 \* and returned with the connection still up
  failedOn,      \* the transports on which a write by send() has failed while
                 \* the loop was Connected
  attempts,      \* connection attempts made
  failLogged,    \* failures of a connection attempt that were logged
  lastExit,      \* why the loop left its last iteration
  waits,         \* reconnect waits completed since lastExit was set
  framesMade,    \* frames the worker has written
  frameKind,     \* kind of each frame the worker has written, by id
  readLog,       \* ids of the frames taken off the transport, in order
  handlerLog,    \* ids of the frames the registered handler was called with
  sendsMade,     \* send() calls made
  connections,   \* times the loop has reached Connected
  \* ---- session registry
  registry,      \* "WsClients" | "WebSocketConnections"
  sessions,      \* the map: group key -> Vec of handles (the one handle
                 \* of a ws_sessions entry is a Vec of length one)
  expected,      \* history: per group, the handles subscribed and not
                 \* unsubscribed since, in subscription order
  bcast,         \* the last broadcast: its group, message, the handles it
                 \* found registered (snap) and still has to try (todo),
                 \* the delivery attempts made, which of them failed, and
                 \* the handles it took out of the registry (dropped)
  regOps,        \* registry operations made
  unsub,         \* history: the last unsubscribe that returned, with the
                 \* map as it was before and after it
  \* ---- task orchestrator
  orch,          \* "api" | "ws"
  hard,          \* PROCESS_HARD is "true" in the environment
  store,         \* background_remover_task: key -> [group, processing, done]
                 \* (done: processed_image_path is not NULL)
  link,          \* what a send finds: "connected" | "absent" | "dead" | "busy"
  frames,        \* frames written to the worker, in order
  notes,         \* messages sent to WebSocket sessions, in order
  dp,            \* per caller of maybe_dispatch: position and locals
  chan,          \* tx_image_mpsc_channel: tasks queued for the consumer
  cp,            \* the channel consumer: position and the task it holds
  hp,            \* the result handler: position and locals
  dispatches,    \* 'process' commands received
  events,        \* worker events received
  faults         \* store, file and transport failures injected

connVars == <<client, secret, loopPc, cur, curUp, holder, lockOwner, writing,
              firstWritten, hsWritten, inbox, nPing, senderPc, lastRes, lastResLive, failedOn, senderAt, attempts,
              failLogged, lastExit, waits, framesMade, frameKind, readLog,
              handlerLog, sendsMade, connections>>
regVars == <<registry, sessions, expected, bcast, regOps, unsub>>
taskVars == <<orch, hard, store, link, frames, notes, dp, chan, cp, hp,
              dispatches, events, faults>>
vars == <<connVars, regVars, taskVars>>

cfgVars == <<client, secret>>
sendVars == <<senderPc, lastRes, lastResLive, failedOn, senderAt, sendsMade>>

\* ------------------------------------------------------------ helpers
\* the process is running (std::process::exit has not been called)
Alive == loopPc # "exited"

\* the ConnectionManager state Connected: handshake done, decode loop running
Connected == loopPc = "listen"

\* a write on transport t succeeds when t is the live transport
Up(t) == t = cur /\ curUp

\* the first frame of a connection, once x has been written completely
First(x) == IF firstWritten = "none" THEN x ELSE firstWritten

\* ------------------------------------------------------------ initial state
ConnInit ==
  /\ client \in {"listen", "handle_response"}
  /\ secret \in BOOLEAN
  /\ loopPc = "connect"
  /\ cur = 0
  /\ curUp = FALSE
  /\ holder = 0
  /\ lockOwner = "none"
  /\ writing = {}
  /\ firstWritten = "none"
  /\ hsWritten = 0
  /\ inbox = <<>>
  /\ nPing = 0
  /\ senderPc = [s \in Senders |-> "idle"]
  /\ lastRes = "none"
  /\ senderAt = [s \in Senders |-> "idle"]
  /\ lastResLive = FALSE
  /\ failedOn = {}
  /\ attempts = 0
  /\ failLogged = 0
  /\ lastExit = "none"
  /\ waits = 0
  /\ framesMade = 0
  /\ frameKind = <<>>
  /\ readLog = <<>>
  /\ handlerLog = <<>>
  /\ sendsMade = 0
  /\ connections = 0

\* ------------------------------------------------------------ client "listen"
\* TcpStream::connect and TcpStreamWrapper::new at the head of the loop: an
\* Err of either is logged, waits and continues ("connect_fail")
listen_connect ==
  /\ client = "listen" /\ loopPc = "connect" /\ attempts < MaxAttempts
  /\ attempts' = attempts + 1
  /\ waits' = 0
  /\ \E outcome \in {"ok", "connect_fail"} :
       \/ /\ outcome = "ok"
          /\ cur' = attempts + 1
          /\ curUp' = TRUE
          /\ inbox' = <<>>
          /\ firstWritten' = "none"
          /\ hsWritten' = 0
          /\ loopPc' = "install"
          /\ lastExit' = "none"
          /\ UNCHANGED failLogged
       \/ /\ outcome = "connect_fail"
          /\ failLogged' = failLogged + 1
          /\ loopPc' = "wait"
          /\ lastExit' = "connect_fail"
          /\ UNCHANGED <<cur, curUp, inbox, firstWritten, hsWritten>>
  /\ UNCHANGED <<regVars, taskVars, cfgVars, holder, lockOwner, writing, nPing, sendVars,
                 framesMade, frameKind, readLog, handlerLog, connections>>

\* { let mut stream_holder = lock().await; *stream_holder = Some(stream) }
listen_set_stream ==
  /\ client = "listen" /\ loopPc = "install" /\ lockOwner = "none"
  /\ holder' = cur
  /\ loopPc' = "handshake"
  /\ UNCHANGED <<regVars, taskVars, cfgVars, cur, curUp, lockOwner, writing, firstWritten, hsWritten, inbox, nPing,
                 sendVars, attempts, failLogged, lastExit, waits, framesMade,
                 frameKind, readLog, handlerLog, connections>>

\* handshake(): the token is read, then write_chunk is awaited on the stream
\* itself, without taking the holder's mutex
listen_handshake_begin ==
  /\ client = "listen" /\ loopPc = "handshake"
  /\ IF secret
       THEN /\ writing' = writing \cup {[who |-> "hs", t |-> cur]}
            /\ loopPc' = "hs_writing"
       ELSE /\ loopPc' = "exited"
            /\ UNCHANGED writing
  /\ UNCHANGED <<regVars, taskVars, cfgVars, cur, curUp, holder, lockOwner, firstWritten, hsWritten, inbox, nPing,
                 sendVars, attempts, failLogged, lastExit, waits, framesMade,
                 frameKind, readLog, handlerLog, connections>>

\* write_chunk returns: Ok starts the decode loop, Err is logged, waits and
\* continues (the holder keeps the stream)
listen_handshake_end ==
  /\ client = "listen" /\ loopPc = "hs_writing"
  /\ writing' = writing \ {[who |-> "hs", t |-> cur]}
  /\ IF curUp
       THEN /\ firstWritten' = First("hs")
            /\ hsWritten' = hsWritten + 1
            /\ loopPc' = "listen"
            /\ connections' = connections + 1
            /\ UNCHANGED <<lastExit, waits, failLogged>>
       ELSE /\ loopPc' = "wait"
            /\ lastExit' = "hs_fail"
            /\ failLogged' = failLogged + 1
            /\ waits' = 0
            /\ UNCHANGED <<firstWritten, hsWritten, connections>>
  /\ UNCHANGED <<regVars, taskVars, cfgVars, cur, curUp, holder, lockOwner, inbox, nPing, sendVars,
                 attempts, framesMade, frameKind, readLog, handlerLog>>

\* one iteration of listen_stream_response: decode_tcp_stream, then
\* Value::from_str on the message, then the callback
listen_stream_response ==
  /\ client = "listen" /\ loopPc = "listen"
  /\ \/ /\ ~curUp
        /\ loopPc' = "teardown"
        /\ lastExit' = "decode_fail"
        /\ waits' = 0
        /\ UNCHANGED <<inbox, readLog, handlerLog>>
     \/ /\ curUp /\ inbox # <<>>
        /\ inbox' = Tail(inbox)
        /\ readLog' = Append(readLog, Head(inbox).id)
        /\ IF Head(inbox).kind = "normal"
             THEN /\ handlerLog' = Append(handlerLog, Head(inbox).id)
                  /\ UNCHANGED <<loopPc, lastExit, waits>>
             ELSE /\ loopPc' = "teardown"
                  /\ lastExit' = "decode_fail"
                  /\ waits' = 0
                  /\ UNCHANGED handlerLog
  /\ UNCHANGED <<regVars, taskVars, cfgVars, cur, curUp, holder, lockOwner, writing, firstWritten, hsWritten, nPing,
                 sendVars, attempts, failLogged, framesMade, frameKind,
                 connections>>

\* listen_take_stream with the take() left out
listen_take_stream_without_take ==
  /\ client = "listen" /\ loopPc = "teardown" /\ lockOwner = "none"
  /\ loopPc' = "wait"
  /\ UNCHANGED <<regVars, taskVars, cfgVars, cur, curUp, holder, lockOwner, writing, firstWritten, hsWritten, inbox, nPing,
                 sendVars, attempts, failLogged, lastExit, waits, framesMade,
                 frameKind, readLog, handlerLog, connections>>

\* { let mut stream_holder = lock().await; stream_holder.take(); }
listen_take_stream ==
  /\ client = "listen" /\ loopPc = "teardown" /\ lockOwner = "none"
  /\ holder' = 0
  /\ loopPc' = "wait"
  /\ UNCHANGED <<regVars, taskVars, cfgVars, cur, curUp, lockOwner, writing, firstWritten, hsWritten, inbox, nPing,
                 sendVars, attempts, failLogged, lastExit, waits, framesMade,
                 frameKind, readLog, handlerLog, connections>>

\* wait_reconnect: sleep(reconnect_duration)
wait_reconnect ==
  /\ client = "listen" /\ loopPc = "wait"
  /\ waits' = waits + 1
  /\ loopPc' = "connect"
  /\ UNCHANGED <<regVars, taskVars, cfgVars, cur, curUp, holder, lockOwner, writing, firstWritten, hsWritten, inbox,
                 nPing, sendVars, attempts, failLogged, lastExit, framesMade,
                 frameKind, readLog, handlerLog, connections>>

\* ------------------------------------------------------------ client "handle_response"
\* spawn_blocking(TcpStream::connect) at the head of the loop; Err is logged
\* and falls through to the lock at the foot of the loop
handle_response_connect ==
  /\ client = "handle_response" /\ loopPc = "connect" /\ attempts < MaxAttempts
  /\ attempts' = attempts + 1
  /\ waits' = 0
  /\ \E outcome \in {"ok", "connect_fail"} :
       \/ /\ outcome = "ok"
          /\ cur' = attempts + 1
          /\ curUp' = TRUE
          /\ inbox' = <<>>
          /\ firstWritten' = "none"
          /\ hsWritten' = 0
          /\ loopPc' = "handshake"
          /\ lastExit' = "none"
          /\ UNCHANGED failLogged
       \/ /\ outcome = "connect_fail"
          /\ failLogged' = failLogged + 1
          /\ loopPc' = "teardown"
          /\ lastExit' = "connect_fail"
          /\ UNCHANGED <<cur, curUp, inbox, firstWritten, hsWritten>>
  /\ UNCHANGED <<regVars, taskVars, cfgVars, holder, lockOwner, writing, nPing, sendVars,
                 framesMade, frameKind, readLog, handlerLog, connections>>

\* handshake(&mut tcp_stream): the token is read, then write_all starts
handle_response_handshake_begin ==
  /\ client = "handle_response" /\ loopPc = "handshake"
  /\ IF secret
       THEN /\ writing' = writing \cup {[who |-> "hs", t |-> cur]}
            /\ loopPc' = "hs_writing"
       ELSE /\ loopPc' = "exited"
            /\ UNCHANGED writing
  /\ UNCHANGED <<regVars, taskVars, cfgVars, cur, curUp, holder, lockOwner, firstWritten, hsWritten, inbox, nPing,
                 sendVars, attempts, failLogged, lastExit, waits, framesMade,
                 frameKind, readLog, handlerLog, connections>>

\* tcp_stream.write_all(&bytes).unwrap(): Err panics the spawned loop
handle_response_handshake_end ==
  /\ client = "handle_response" /\ loopPc = "hs_writing"
  /\ writing' = writing \ {[who |-> "hs", t |-> cur]}
  /\ IF curUp
       THEN /\ firstWritten' = First("hs")
            /\ hsWritten' = hsWritten + 1
            /\ loopPc' = "install"
            /\ UNCHANGED <<lastExit, waits>>
       ELSE /\ loopPc' = "panicked"
            /\ lastExit' = "hs_fail"
            /\ waits' = 0
            /\ UNCHANGED <<firstWritten, hsWritten>>
  /\ UNCHANGED <<regVars, taskVars, cfgVars, cur, curUp, holder, lockOwner, inbox, nPing, sendVars,
                 attempts, failLogged, framesMade, frameKind, readLog,
                 handlerLog, connections>>

\* the scoped lock that sets Some(tcp_stream), then tokio::spawn(ping)
handle_response_set_stream ==
  /\ client = "handle_response" /\ loopPc = "install" /\ lockOwner = "none"
  /\ holder' = cur
  /\ nPing' = nPing + 1
  /\ loopPc' = "listen"
  /\ connections' = connections + 1
  /\ UNCHANGED <<regVars, taskVars, cfgVars, cur, curUp, lockOwner, writing, firstWritten, hsWritten, inbox,
                 sendVars, attempts, failLogged, lastExit, waits, framesMade,
                 frameKind, readLog, handlerLog>>

\* one iteration of handle_bytes_read: decode_tcp_stream, then
\* handle_response_received_from_server, whose serde_json::from_str(..).unwrap()
\* panics on a message that is not JSON
handle_bytes_read ==
  /\ client = "handle_response" /\ loopPc = "listen"
  /\ \/ /\ ~curUp
        /\ loopPc' = "teardown"
        /\ lastExit' = "decode_fail"
        /\ waits' = 0
        /\ UNCHANGED <<inbox, readLog, handlerLog>>
     \/ /\ curUp /\ inbox # <<>>
        /\ inbox' = Tail(inbox)
        /\ readLog' = Append(readLog, Head(inbox).id)
        /\ \/ /\ Head(inbox).kind = "normal"
              /\ handlerLog' = Append(handlerLog, Head(inbox).id)
              /\ UNCHANGED <<loopPc, lastExit, waits>>
           \/ /\ Head(inbox).kind \in {"badjson", "ping"}
              /\ handlerLog' = Append(handlerLog, Head(inbox).id)
              /\ loopPc' = "panicked"
              /\ UNCHANGED <<lastExit, waits>>
           \/ /\ Head(inbox).kind = "garbage"
              /\ loopPc' = "teardown"
              /\ lastExit' = "decode_fail"
              /\ waits' = 0
              /\ UNCHANGED handlerLog
  /\ UNCHANGED <<regVars, taskVars, cfgVars, cur, curUp, holder, lockOwner, writing, firstWritten, hsWritten, nPing,
                 sendVars, attempts, failLogged, framesMade, frameKind,
                 connections>>

\* let mut tcp_stream_lock = lock().await; *tcp_stream_lock = None;
\* the guard lives to the end of the loop body
handle_response_clear_stream ==
  /\ client = "handle_response" /\ loopPc = "teardown" /\ lockOwner = "none"
  /\ lockOwner' = "loop"
  /\ holder' = 0
  /\ loopPc' = "wait"
  /\ UNCHANGED <<regVars, taskVars, cfgVars, cur, curUp, writing, firstWritten, hsWritten, inbox, nPing,
                 sendVars, attempts, failLogged, lastExit, waits, framesMade,
                 frameKind, readLog, handlerLog, connections>>

\* sleep(retry_duration), then the guard is dropped and the loop starts over
handle_response_sleep ==
  /\ client = "handle_response" /\ loopPc = "wait"
  /\ lockOwner' = "none"
  /\ waits' = waits + 1
  /\ loopPc' = "connect"
  /\ UNCHANGED <<regVars, taskVars, cfgVars, cur, curUp, holder, writing, firstWritten, hsWritten, inbox,
                 nPing, sendVars, attempts, failLogged, lastExit, framesMade,
                 frameKind, readLog, handlerLog, connections>>

\* ping(): lock, and with Some(stream) start write_all of the ping bytes
ping_begin ==
  /\ client = "handle_response" /\ Alive
  /\ nPing > 0 /\ lockOwner = "none" /\ holder # 0
  /\ lockOwner' = "ping"
  /\ writing' = writing \cup {[who |-> "ping", t |-> holder]}
  /\ UNCHANGED <<regVars, taskVars, cfgVars, loopPc, cur, curUp, holder, firstWritten, hsWritten, inbox, nPing,
                 sendVars, attempts, failLogged, lastExit, waits, framesMade,
                 frameKind, readLog, handlerLog, connections>>

\* write_all returns: Ok keeps the task looping, Err breaks out of its loop
ping_end ==
  /\ lockOwner = "ping" /\ Alive
  /\ writing' = writing \ {[who |-> "ping", t |-> holder]}
  /\ lockOwner' = "none"
  /\ IF Up(holder)
       THEN /\ firstWritten' = First("ping")
            /\ UNCHANGED nPing
       ELSE /\ nPing' = nPing - 1
            /\ UNCHANGED firstWritten
  /\ UNCHANGED <<regVars, taskVars, cfgVars, loopPc, cur, curUp, holder, hsWritten, inbox,
                 sendVars, attempts, failLogged, lastExit, waits, framesMade,
                 frameKind, readLog, handlerLog, connections>>

\* ------------------------------------------------------------ send
\* callers of send() keep no state between calls, so the second caller is
\* used only for a call that overlaps one of the first
CanCall(s) == s = "s1" \/ senderPc["s1"] # "idle"

\* a caller enters send() / send_remove_task() and asks for the lock
send_call(s) ==
  /\ Alive /\ senderPc[s] = "idle" /\ sendsMade < MaxSends /\ CanCall(s)
  /\ sendsMade' = sendsMade + 1
  /\ senderPc' = [senderPc EXCEPT ![s] = "called"]
  /\ UNCHANGED <<regVars, taskVars, cfgVars, loopPc, cur, curUp, holder, lockOwner, writing,
                 firstWritten, hsWritten, inbox, nPing, lastRes, lastResLive, failedOn, senderAt,
                 attempts, failLogged, lastExit, waits, framesMade,
                 frameKind, readLog, handlerLog, connections>>

\* the lock is acquired and the holder read: None returns the
\* "not connected" error, Some(stream) starts the write under the lock
send_locked(s) ==
  /\ Alive /\ senderPc[s] = "called" /\ lockOwner = "none"
  /\ IF holder = 0
       THEN /\ lastRes' = "not_connected"
            /\ lastResLive' = FALSE
            /\ senderPc' = [senderPc EXCEPT ![s] = "idle"]
            /\ UNCHANGED <<lockOwner, writing, senderAt>>
       ELSE /\ lockOwner' = s
            /\ writing' = writing \cup {[who |-> s, t |-> holder]}
            /\ senderPc' = [senderPc EXCEPT ![s] = "writing"]
            /\ senderAt' = [senderAt EXCEPT ![s] = loopPc]
            /\ UNCHANGED <<lastRes, lastResLive>>
  /\ UNCHANGED <<regVars, taskVars, cfgVars, loopPc, cur, curUp, holder, firstWritten, hsWritten,
                 inbox, nPing, sendsMade, failedOn, attempts, failLogged, lastExit,
                 waits, framesMade, frameKind, readLog, handlerLog,
                 connections>>

\* the write returns and the guard is dropped
send_written(s) ==
  /\ Alive /\ senderPc[s] = "writing"
  /\ writing' = writing \ {[who |-> s, t |-> holder]}
  /\ lockOwner' = "none"
  /\ senderPc' = [senderPc EXCEPT ![s] = "idle"]
  /\ senderAt' = [senderAt EXCEPT ![s] = "idle"]
  /\ lastResLive' = (senderAt[s] = "listen" /\ Connected /\ curUp)
  /\ IF Up(holder)
       THEN /\ firstWritten' = First("task")
            /\ lastRes' = "ok"
            /\ UNCHANGED failedOn
       ELSE /\ lastRes' = "io_error"
            /\ failedOn' = IF Connected THEN failedOn \cup {holder} ELSE failedOn
            /\ UNCHANGED firstWritten
  /\ UNCHANGED <<regVars, taskVars, cfgVars, loopPc, cur, curUp, holder, hsWritten, inbox, nPing,
                 sendsMade, attempts, failLogged, lastExit, waits,
                 framesMade, frameKind, readLog, handlerLog, connections>>

\* ------------------------------------------------------------ the worker
\* the worker writes one frame on the live connection
worker_write(k) ==
  /\ Alive /\ loopPc = "listen" /\ curUp /\ framesMade < MaxFrames
  /\ framesMade' = framesMade + 1
  /\ frameKind' = Append(frameKind, k)
  /\ inbox' = Append(inbox, [id |-> framesMade + 1, kind |-> k])
  /\ UNCHANGED <<regVars, taskVars, cfgVars, loopPc, cur, curUp, holder, lockOwner, writing, firstWritten, hsWritten,
                 nPing, sendVars, attempts, failLogged, lastExit, waits,
                 readLog, handlerLog, connections>>

\* the connection to the worker is lost
transport_lost ==
  /\ curUp /\ loopPc \in {"install", "handshake", "hs_writing", "listen"}
  /\ curUp' = FALSE
  /\ UNCHANGED <<regVars, taskVars, cfgVars, loopPc, cur, holder, lockOwner, writing, firstWritten, hsWritten, inbox,
                 nPing, sendVars, attempts, failLogged, lastExit, waits,
                 framesMade, frameKind, readLog, handlerLog, connections>>

\* ------------------------------------------------------------ specification
\* no unsubscribe has returned yet
NoUnsub == [done |-> FALSE, group |-> "", uid |-> "", before |-> <<>>, after |-> <<>>]

NoBcast == [group |-> "", msg |-> "", want |-> <<>>, todo |-> <<>>,
            attempts |-> <<>>, active |-> FALSE,
            snap |-> <<>>, failed |-> {}, dropped |-> {}]

RegIdle ==
  /\ registry = "WsClients"
  /\ sessions = <<>>
  /\ expected = [g \in Groups |-> <<>>]
  /\ bcast = NoBcast
  /\ regOps = 0
  /\ unsub = NoUnsub

\* ------------------------------------------------------------ task orchestrator: state
NoInst == [group |-> "", processing |-> FALSE, done |-> FALSE]
IdleDp == [pc |-> "idle", group |-> "", key |-> "", inst |-> NoInst,
           res |-> "none", n0 |-> 0, f0 |-> 0, writes |-> 0, queued |-> 0,
           found |-> "none", flag |-> "none", prior |-> FALSE]
IdleCp == [pc |-> "recv", key |-> "", inst |-> NoInst]
NoEvent == [key |-> "", status |-> "", code |-> "", files |-> 0, text |-> ""]
IdleHp == [pc |-> "idle", key |-> "", ev |-> NoEvent, inst |-> NoInst,
           fresh |-> NoInst, n0 |-> 0, steps |-> <<>>,
           s0 |-> <<>>, d0 |-> 0, quiet |-> FALSE, after |-> FALSE]

TaskIdle ==
  /\ orch = "api"
  /\ hard = FALSE
  /\ store = [k \in Keys |-> [group |-> Owner[k], processing |-> FALSE, done |-> FALSE]]
  /\ link = "absent"
  /\ frames = <<>>
  /\ notes = <<>>
  /\ dp = [d \in Callers |-> IdleDp]
  /\ chan = <<>>
  /\ cp = IdleCp
  /\ hp = IdleHp
  /\ dispatches = 0
  /\ events = 0
  /\ faults = 0

InitConn == ConnInit /\ RegIdle /\ TaskIdle

NextConn ==
  \/ listen_connect
  \/ listen_set_stream
  \/ listen_handshake_begin
  \/ listen_handshake_end
  \/ listen_stream_response
  \/ listen_take_stream
  \/ wait_reconnect
  \/ handle_response_connect
  \/ handle_response_handshake_begin
  \/ handle_response_handshake_end
  \/ handle_response_set_stream
  \/ handle_bytes_read
  \/ handle_response_clear_stream
  \/ handle_response_sleep
  \/ ping_begin
  \/ ping_end
  \/ \E s \in Senders : send_call(s)
  \/ \E s \in Senders : send_locked(s)
  \/ \E s \in Senders : send_written(s)
  \/ \E k \in FrameKinds : worker_write(k)
  \/ transport_lost

SpecConn == InitConn /\ [][NextConn]_vars

\* the steps of the spawned tasks: the runtime keeps scheduling the connection
\* loop, the keepalive tasks and the callers of send(); it promises nothing
\* about the worker or the network
LoopStep ==
  \/ listen_connect
  \/ listen_set_stream
  \/ listen_handshake_begin
  \/ listen_handshake_end
  \/ listen_stream_response
  \/ listen_take_stream
  \/ wait_reconnect
  \/ handle_response_connect
  \/ handle_response_handshake_begin
  \/ handle_response_handshake_end
  \/ handle_response_set_stream
  \/ handle_bytes_read
  \/ handle_response_clear_stream
  \/ handle_response_sleep

FairSpecConn ==
  /\ SpecConn
  /\ WF_vars(LoopStep)
  /\ WF_vars(ping_begin)
  /\ WF_vars(ping_end)
  /\ \A s \in Senders : WF_vars(send_locked(s)) /\ WF_vars(send_written(s))

\* ------------------------------------------------------------ claims about the client
\* positions of the loop in which the manager is Disconnected, Connecting,
\* Handshaking or waiting out the reconnect interval
NotConnectedPcs == {"connect", "install", "handshake", "hs_writing", "wait"}

KindOf(id) == frameKind[id]
IsNormal(id) == KindOf(id) = "normal"
NoDuplicates(log) ==
  \A i, j \in 1..Len(log) : log[i] = log[j] => i = j

\* C1: a send() that reads the holder while the manager is not Connected
\* writes to no transport, and a send() called while the manager is not
\* Connected is never kept waiting for the lock by the connection loop.
C1_SendFailsAtOnce ==
  /\ \A s \in Senders :
       senderPc[s] = "writing" => senderAt[s] \notin NotConnectedPcs
  /\ \A s \in Senders :
       (senderPc[s] = "called" /\ loopPc \in NotConnectedPcs)
         => lockOwner # "loop"

\* C2: once an attempt and its handshake have succeeded, exactly the failed
\* attempts before the first connection were logged, a send() made on the
\* live connection succeeds, and the connection loop is still running.
C2_ReconnectConverges ==
  /\ (Connected /\ connections = 1) => failLogged = attempts - 1
  /\ lastResLive => lastRes = "ok"
  /\ connections > 0 => loopPc \notin {"panicked", "exited"}

\* C3: after a failed handshake write the loop is alive, the shared writer is
\* absent, and the next attempt starts after exactly one reconnect interval.
C3_HandshakeFailureRetries ==
  lastExit = "hs_fail" =>
    /\ loopPc \in {"wait", "connect"}
    /\ holder = 0
    /\ (loopPc = "wait" => waits = 0)
    /\ (loopPc = "connect" => waits = 1)

\* C4: after a frame read or decode has failed, the decode loop has stopped,
\* the shared writer is absent once the loop waits and when the next attempt
\* is about to start, that attempt starts after exactly one reconnect
\* interval, and no frame is taken off a transport twice.
C4_DecodeFailureReconnects ==
  /\ lastExit = "decode_fail" =>
       /\ loopPc \in {"teardown", "wait", "connect"}
       /\ (loopPc \in {"wait", "connect"} => holder = 0)
       /\ (loopPc \in {"teardown", "wait"} => waits = 0)
       /\ (loopPc = "connect" => waits = 1)
  /\ NoDuplicates(readLog)

\* a codec error on a frame has been followed by the teardown and one wait,
\* and the loop is about to connect again
C4_Witness ==
  /\ lastExit = "decode_fail"
  /\ loopPc = "connect"
  /\ readLog # <<>>
  /\ KindOf(readLog[Len(readLog)]) = "garbage"
  /\ holder = 0
  /\ waits = 1

\* C5: no two writes are in progress on the same transport.
C5_SingleWriter ==
  \A w1, w2 \in writing : w1.t = w2.t => w1 = w2

\* C6: on the current connection the handshake is written at most once, it is
\* the first frame written, and no other write starts before it has completed.
C6_HandshakeFirst ==
  /\ hsWritten <= 1
  /\ firstWritten \in {"none", "hs"}
  /\ \A w \in writing : (w.t = cur /\ w.who # "hs") => hsWritten = 1

\* C7: the handler has been called exactly once, in reading order, for the
\* well-formed normal frames read, never for a ping frame, and the loop is
\* still Connected after reading a ping frame from a live transport.
C7_HandlerPerNormalFrame ==
  /\ SelectSeq(handlerLog, IsNormal) = SelectSeq(readLog, IsNormal)
  /\ \A i \in 1..Len(handlerLog) : KindOf(handlerLog[i]) # "ping"
  /\ (readLog # <<>> /\ KindOf(readLog[Len(readLog)]) = "ping" /\ curUp)
       => Connected

\* C8: if the manager stays Connected on a live transport from some point on,
\* then again and again a ping is being written by a keepalive task that
\* holds the lock of the shared writer.
C8_PingRecurs ==
  <>[](Connected /\ curUp) => []<>(lockOwner = "ping")

\* C9: with the handshake secret missing, no connection attempt is repeated
\* and the loop never waits out a reconnect interval.
C9_MissingSecretIsFatal ==
  ~secret => (attempts <= 1 /\ loopPc # "wait")

\* ------------------------------------------------------------ session registry
\* a removal that also drops what follows the removed element
RemoveAt_truncate(list, i) == SubSeq(list, 1, i - 1)

RemoveAt(list, i) == SubSeq(list, 1, i - 1) \o SubSeq(list, i + 1, Len(list))

HasKey(g) == g \in DOMAIN sessions
Put(g, list) == [k \in DOMAIN sessions \cup {g} |-> IF k = g THEN list ELSE sessions[k]]
Drop(g) == [k \in DOMAIN sessions \ {g} |-> sessions[k]]

\* the handles under g without those of uid u, order kept
Without(list, u) == SelectSeq(list, LAMBDA h : h.uid # u)

\* WsClients::remove: for i in (0..len).rev() { if uid matches { remove(i) } }
\* (i counts from Len(list) down to 1 here)
RECURSIVE RemoveRev(_, _, _)
RemoveRev(list, i, u) ==
  IF i = 0 THEN list
  ELSE IF list[i].uid = u
         THEN RemoveRev(RemoveAt(list, i), i - 1, u)
         ELSE RemoveRev(list, i - 1, u)

\* WebSocketConnections::unsubscribe: index = 0; while index < len()
\* { if uid matches { remove(index) } index += 1 }   (index is 1-based here)
RECURSIVE UnsubscribeLoop(_, _, _)
UnsubscribeLoop(list, index, u) ==
  IF index > Len(list) THEN list
  ELSE IF list[index].uid = u
         THEN UnsubscribeLoop(RemoveAt(list, index), index + 1, u)
         ELSE UnsubscribeLoop(list, index + 1, u)

RegInit ==
  /\ registry \in {"WsClients", "WebSocketConnections", "ws_sessions"}
  /\ sessions = <<>>
  /\ expected = [g \in Groups |-> <<>>]
  /\ bcast = NoBcast
  /\ regOps = 0
  /\ unsub = NoUnsub

\* WsClients::add
WsClients_add(g, h) ==
  /\ registry = "WsClients" /\ regOps < MaxRegOps
  /\ regOps' = regOps + 1
  /\ sessions' = IF HasKey(g) THEN Put(g, Append(sessions[g], h))
                              ELSE Put(g, <<h>>)
  /\ expected' = [expected EXCEPT ![g] = Append(@, h)]
  /\ UNCHANGED <<connVars, taskVars, registry, bcast, unsub>>

\* WsClients::remove
WsClients_remove(g, u) ==
  /\ registry = "WsClients" /\ regOps < MaxRegOps
  /\ regOps' = regOps + 1
  /\ sessions' =
       IF HasKey(g)
         THEN LET left == RemoveRev(sessions[g], Len(sessions[g]), u)
              IN  IF Len(left) = 0 THEN Drop(g) ELSE Put(g, left)
         ELSE sessions
  /\ expected' = [expected EXCEPT ![g] = Without(@, u)]
  /\ unsub' = [done |-> TRUE, group |-> g, uid |-> u,
               before |-> sessions, after |-> sessions']
  /\ UNCHANGED <<connVars, taskVars, registry, bcast>>

\* WsClients::get_all as the broadcasting callers use it: the Vec is cloned
\* under the lock, the sends follow after the lock is released
WsClients_get_all(g, m) ==
  /\ registry = "WsClients" /\ regOps < MaxRegOps
  /\ bcast.todo = <<>>
  /\ regOps' = regOps + 1
  /\ bcast' = [group |-> g, msg |-> m, want |-> expected[g],
               todo |-> IF HasKey(g) THEN sessions[g] ELSE <<>>,
               attempts |-> <<>>, active |-> TRUE,
               snap |-> IF HasKey(g) THEN sessions[g] ELSE <<>>,
               failed |-> {}, dropped |-> {}]
  /\ UNCHANGED <<connVars, taskVars, registry, sessions, expected, unsub>>

\* one turn of "for websocket in websockets { let _ = send_json(..).await }":
\* the send succeeds or fails (ok), its result is dropped
send_json_next ==
  /\ registry = "WsClients" /\ bcast.todo # <<>>
  /\ \E ok \in BOOLEAN :
       bcast' = [bcast EXCEPT
                   !.todo = Tail(@),
                   !.attempts = Append(@, [to |-> Head(bcast.todo), msg |-> bcast.msg]),
                   !.failed = IF ok THEN @ ELSE @ \cup {Len(bcast.attempts) + 1}]
  /\ UNCHANGED <<connVars, taskVars, registry, sessions, expected, regOps, unsub>>

\* WebSocketConnections::subscribe
subscribe(g, h) ==
  /\ registry = "WebSocketConnections" /\ regOps < MaxRegOps
  /\ regOps' = regOps + 1
  /\ sessions' = IF HasKey(g) THEN Put(g, Append(sessions[g], h))
                              ELSE Put(g, <<h>>)
  /\ expected' = [expected EXCEPT ![g] = Append(@, h)]
  /\ UNCHANGED <<connVars, taskVars, registry, bcast, unsub>>

\* WebSocketConnections::unsubscribe
unsubscribe(g, u) ==
  /\ registry = "WebSocketConnections" /\ regOps < MaxRegOps
  /\ regOps' = regOps + 1
  /\ sessions' = IF HasKey(g) THEN Put(g, UnsubscribeLoop(sessions[g], 1, u))
                              ELSE sessions
  /\ expected' = [expected EXCEPT ![g] = Without(@, u)]
  /\ unsub' = [done |-> TRUE, group |-> g, uid |-> u,
               before |-> sessions, after |-> sessions']
  /\ UNCHANGED <<connVars, taskVars, registry, bcast>>

\* broadcast_ws: under the map's lock, send_json to each handle of the group;
\* a send that fails (those of F) is logged and the loop goes on
broadcast_ws(g, m) ==
  /\ registry = "WebSocketConnections" /\ regOps < MaxRegOps
  /\ regOps' = regOps + 1
  /\ LET list == IF HasKey(g) THEN sessions[g] ELSE <<>>
     IN  \E F \in SUBSET (1..Len(list)) :
           bcast' = [group |-> g, msg |-> m, want |-> expected[g], todo |-> <<>>,
                     attempts |-> [i \in 1..Len(list) |-> [to |-> list[i], msg |-> m]],
                     active |-> TRUE, snap |-> list, failed |-> F, dropped |-> {}]
  /\ UNCHANGED <<connVars, taskVars, registry, sessions, expected, unsub>>

\* task_ws::listen_ws_message: sessions_map.insert(task_group, websocket.clone())
listen_ws_message(g, h) ==
  /\ registry = "ws_sessions" /\ regOps < MaxRegOps
  /\ regOps' = regOps + 1
  /\ sessions' = Put(g, <<h>>)
  /\ expected' = [expected EXCEPT ![g] = Append(@, h)]
  /\ UNCHANGED <<connVars, taskVars, registry, bcast, unsub>>

\* services::send_message: send_json to the session of the group, and
\* sessions.remove(group) when the send fails
send_message(g, m) ==
  /\ registry = "ws_sessions" /\ regOps < MaxRegOps
  /\ regOps' = regOps + 1
  /\ LET list == IF HasKey(g) THEN sessions[g] ELSE <<>>
     IN  \E ok \in BOOLEAN :
           /\ bcast' = [group |-> g, msg |-> m, want |-> expected[g], todo |-> <<>>,
                        attempts |-> [i \in 1..Len(list) |-> [to |-> list[i], msg |-> m]],
                        active |-> TRUE, snap |-> list,
                        failed |-> IF ok THEN {} ELSE 1..Len(list),
                        dropped |-> IF ok THEN {} ELSE {list[i] : i \in 1..Len(list)}]
           /\ sessions' = IF HasKey(g) /\ ~ok THEN Drop(g) ELSE sessions
  /\ UNCHANGED <<connVars, taskVars, registry, expected, unsub>>

ConnIdle ==
  /\ client = "listen"
  /\ secret = TRUE
  /\ loopPc = "connect"
  /\ cur = 0
  /\ curUp = FALSE
  /\ holder = 0
  /\ lockOwner = "none"
  /\ writing = {}
  /\ firstWritten = "none"
  /\ hsWritten = 0
  /\ inbox = <<>>
  /\ nPing = 0
  /\ senderPc = [s \in Senders |-> "idle"]
  /\ lastRes = "none"
  /\ senderAt = [s \in Senders |-> "idle"]
  /\ lastResLive = FALSE
  /\ failedOn = {}
  /\ attempts = 0
  /\ failLogged = 0
  /\ lastExit = "none"
  /\ waits = 0
  /\ framesMade = 0
  /\ frameKind = <<>>
  /\ readLog = <<>>
  /\ handlerLog = <<>>
  /\ sendsMade = 0
  /\ connections = 0

InitReg == RegInit /\ ConnIdle /\ TaskIdle

NextReg ==
  \/ \E g \in Groups, h \in Handles : WsClients_add(g, h)
  \/ \E g \in Groups, u \in Uids : WsClients_remove(g, u)
  \/ \E g \in Groups, m \in Messages : WsClients_get_all(g, m)
  \/ send_json_next
  \/ \E g \in Groups, h \in Handles : subscribe(g, h)
  \/ \E g \in Groups, u \in Uids : unsubscribe(g, u)
  \/ \E g \in Groups, m \in Messages : broadcast_ws(g, m)
  \/ \E g \in Groups, h \in Handles : listen_ws_message(g, h)
  \/ \E g \in Groups, m \in Messages : send_message(g, m)

SpecReg == InitReg /\ [][NextReg]_vars

\* ------------------------------------------------------------ claims about the registry
\* C10: a broadcast that has made all its sends has made exactly one delivery
\* attempt of its message to each handle that was subscribed to its group and
\* not unsubscribed before it, in subscription order, and no other attempt.
C10_FanOut ==
  (bcast.active /\ bcast.todo = <<>>) =>
    bcast.attempts =
      [i \in 1..Len(bcast.want) |-> [to |-> bcast.want[i], msg |-> bcast.msg]]

UidsOf(list) == {list[i].uid : i \in 1..Len(list)}
Registered(g) == IF HasKey(g) THEN sessions[g] ELSE <<>>

\* C11: once unsubscribe(G, u) has returned (and until u is subscribed to G
\* again) no handle with uid u is registered under G, adjacent clones
\* included, and when no subscribed handle of G is left the entry of G is gone.
C11_UnsubscribeRemovesAll ==
  \A g \in Groups :
    /\ UidsOf(Registered(g)) \subseteq UidsOf(expected[g])
    /\ expected[g] = <<>> => ~HasKey(g)

\* C12: no group key of the registry maps to an empty handle list.
C12_NoEmptyGroup ==
  \A g \in DOMAIN sessions : sessions[g] # <<>>

\* C13: a broadcast that has made all its sends has tried every handle it
\* found registered under its group exactly once and in order, whichever of
\* the sends failed, and has taken no handle out of the registry; for a
\* group with no entry it has tried nothing.
C13_FailureIsolated ==
  (bcast.active /\ bcast.todo = <<>>) =>
    /\ bcast.attempts =
         [i \in 1..Len(bcast.snap) |-> [to |-> bcast.snap[i], msg |-> bcast.msg]]
    /\ bcast.dropped = {}

\* ------------------------------------------------------------ task orchestrator
\* a message sent to the sessions of group to: kind is its status_code, data
\* the serialized record it carries, msg what it carries of a worker event
Note(to, kind, data, by) ==
  [to |-> to, kind |-> kind, data |-> data, by |-> by, msg |-> NoEvent]
Frame(key, payload, by) == [task_id |-> key, files |-> 1, payload |-> payload, by |-> by]

\* a step that can fail: ok = FALSE is a failure of the store, of the file
\* system or of the channel, counted in faults
Fallible(ok) ==
  /\ ~ok => faults < MaxFaults
  /\ faults' = IF ok THEN faults ELSE faults + 1

\* a record is inserted with processing FALSE; done is what earlier
\* processing cycles have left
TaskInit ==
  /\ orch \in {"api", "ws"}
  /\ hard \in BOOLEAN
  /\ store \in [Keys -> [group : Groups, processing : {FALSE}, done : BOOLEAN]]
  /\ \A k \in Keys : store[k].group = Owner[k]
  /\ link \in LinkStates
  /\ frames = <<>>
  /\ notes = <<>>
  /\ dp = [d \in Callers |-> IdleDp]
  /\ chan = <<>>
  /\ cp = IdleCp
  /\ hp = IdleHp
  /\ dispatches = 0
  /\ events = 0
  /\ faults = 0

\* the connection manager connects, loses its transport, clears its holder,
\* or has its lock taken for longer than the dispatch timeout
link_changes(l) ==
  /\ l # link /\ faults < MaxFaults
  /\ link' = l
  /\ faults' = faults + 1
  /\ UNCHANGED <<connVars, regVars, orch, hard, store, frames, notes, dp, chan,
                 cp, hp, dispatches, events>>

CanDispatch(d) == d = "d1" \/ dp["d1"].pc # "idle"

\* no handler of a worker event for task k has started
NoEventFor(k) == ~(hp.pc # "idle" /\ hp.key = k)

\* history: a call for task k has returned after send wrote its frame to the
\* worker, and no worker event for k has been handled since
SentBefore(k) ==
  /\ NoEventFor(k)
  /\ \E c \in Callers :
       /\ dp[c].pc = "done" /\ dp[c].key = k
       /\ dp[c].res = "ok" /\ dp[c].found = "connected"

\* a session of group g sends {"key": k}: handle_ws_received_message /
\* handle_received_message parse it and start the dispatch decision
process_command(d, g, k) ==
  /\ dp[d].pc \in {"idle", "done"} /\ CanDispatch(d)
  /\ dispatches + events < MaxTaskOps
  /\ dispatches' = dispatches + 1
  /\ dp' = [dp EXCEPT ![d] = [pc |-> "fetch", group |-> g, key |-> k,
                              inst |-> NoInst, res |-> "none",
                              n0 |-> Len(notes), f0 |-> Len(frames), writes |-> 0,
                              queued |-> 0, found |-> "none", flag |-> "none",
                              prior |-> SentBefore(k)]]
  /\ UNCHANGED <<connVars, regVars, orch, hard, store, link, frames, notes, chan,
                 cp, hp, events, faults>>

\* process_image_decision with the comparison of task_group left out
process_image_decision_any_group(g, k) ==
  IF k \notin Keys THEN "not_found"
  ELSE IF ~(hard \/ ~store[k].processing) THEN "result"
  ELSE "send"

\* process_image_decision with need_processing always true
process_image_decision_always_send(g, k) ==
  IF k \notin Keys THEN "not_found"
  ELSE IF store[k].group # g THEN "permission_error"
  ELSE "send"

\* what handle_process_image_command does with the fetched row: RowNotFound,
\* instance.task_group != task_group, and
\* need_processing = is_process_hard || !instance.processing
process_image_decision(g, k) ==
  IF k \notin Keys THEN "not_found"
  ELSE IF store[k].group # g THEN "permission_error"
  ELSE IF ~(hard \/ ~store[k].processing) THEN "result"
  ELSE "send"

\* handle_ws_received_message (no "key": return; a key that is no UUID:
\* invalid_message_format) and handle_process_image_command up to the call
\* of send
process_image_fetch(d) ==
  /\ orch = "api" /\ dp[d].pc = "fetch"
  /\ IF dp[d].key = NoField
       THEN /\ dp' = [dp EXCEPT ![d].pc = "done", ![d].res = "no_key"]
            /\ UNCHANGED <<notes, faults>>
       ELSE IF dp[d].key = Malformed
       THEN /\ dp' = [dp EXCEPT ![d].pc = "done", ![d].res = "bad_key"]
            /\ notes' = Append(notes, Note(dp[d].group, "invalid_message_format", NoInst, d))
            /\ UNCHANGED faults
       ELSE \E ok \in BOOLEAN :
            /\ Fallible(ok)
            /\ LET g == dp[d].group
                   k == dp[d].key
                   what == process_image_decision(g, k)
                   reply(kind, data) ==
                     /\ notes' = Append(notes, Note(g, kind, data, d))
                     /\ dp' = [dp EXCEPT ![d].pc = "done",
                                         ![d].inst = IF k \in Keys THEN store[k] ELSE NoInst]
               IN  IF ~ok THEN /\ notes' = Append(notes, Note(g, "internal_server_error", NoInst, d))
                               /\ dp' = [dp EXCEPT ![d].pc = "done", ![d].res = "fetch_failed"]
                   ELSE IF what \in {"not_found", "permission_error"} THEN reply(what, NoInst)
                   ELSE IF what = "result" THEN reply("result", store[k])
                   ELSE /\ dp' = [dp EXCEPT ![d].pc = "send", ![d].inst = store[k]]
                        /\ UNCHANGED notes
  /\ UNCHANGED <<connVars, regVars, orch, hard, store, link, frames, chan, cp, hp,
                 dispatches, events>>

\* api::task::send: read the source file, then
\* timeout(12 s, bp_request_client.send(..)).await? ; the result of the inner
\* send is printed and Ok(()) is returned
process_image_send(d) ==
  /\ orch = "api" /\ dp[d].pc = "send"
  /\ \E fileOk \in BOOLEAN :
       /\ Fallible(fileOk)
       /\ IF ~fileOk
            THEN /\ dp' = [dp EXCEPT ![d].pc = "update", ![d].res = "file_error"]
                 /\ UNCHANGED frames
            ELSE /\ frames' = IF link = "connected"
                                THEN Append(frames, Frame(dp[d].key, "task_id", d))
                                ELSE frames
                 /\ dp' = [dp EXCEPT ![d].pc = "update", ![d].found = link,
                                     ![d].res = IF link = "busy" THEN "timeout" ELSE "ok"]
  /\ UNCHANGED <<connVars, regVars, orch, hard, store, link, notes, chan, cp, hp,
                 dispatches, events>>

\* handle_process_image_command after send: Ok(()) => update_processing_state(true)
\* (its result is dropped), Err => log
process_image_update(d) ==
  /\ orch = "api" /\ dp[d].pc = "update"
  /\ IF dp[d].res = "ok"
       THEN \E ok \in BOOLEAN :
              /\ Fallible(ok)
              /\ store' = IF ok THEN [store EXCEPT ![dp[d].key].processing = TRUE]
                                ELSE store
              /\ dp' = [dp EXCEPT ![d].pc = "done",
                                  ![d].writes = IF ok THEN @ + 1 ELSE @,
                                  ![d].flag = IF ok THEN "true" ELSE "failed"]
       ELSE /\ dp' = [dp EXCEPT ![d].pc = "done"]
            /\ UNCHANGED <<store, faults>>
  /\ UNCHANGED <<connVars, regVars, orch, hard, link, frames, notes, chan, cp, hp,
                 dispatches, events>>

\* received_message_decision with the comparison of task_group left out
received_message_decision_any_group(g, k) ==
  IF k \notin Keys THEN "not_found"
  ELSE IF store[k].done /\ ~hard THEN "result"
  ELSE "mark"

\* received_message_decision that answers an unknown key like a foreign one
received_message_decision_no_not_found(g, k) ==
  IF k \notin Keys THEN "permission_error"
  ELSE IF store[k].group # g THEN "permission_error"
  ELSE IF store[k].done /\ ~hard THEN "result"
  ELSE "mark"

\* what task_ws::handle_received_message does with the fetched row:
\* RowNotFound, task_group mismatch, and
\* is_already_processed (processed_image_path.is_some()) && !is_process_hard
received_message_decision(g, k) ==
  IF k \notin Keys THEN "not_found"
  ELSE IF store[k].group # g THEN "permission_error"
  ELSE IF store[k].done /\ ~hard THEN "result"
  ELSE "mark"

\* task_ws::handle_received_message (no "key": return; a key that is no
\* UUID: invalid_key_format) up to update_processing_state
received_message_fetch(d) ==
  /\ orch = "ws" /\ dp[d].pc = "fetch"
  /\ IF dp[d].key = NoField
       THEN /\ dp' = [dp EXCEPT ![d].pc = "done", ![d].res = "no_key"]
            /\ UNCHANGED <<notes, faults>>
       ELSE IF dp[d].key = Malformed
       THEN /\ dp' = [dp EXCEPT ![d].pc = "done", ![d].res = "bad_key"]
            /\ notes' = Append(notes, Note(dp[d].group, "invalid_key_format", NoInst, d))
            /\ UNCHANGED faults
       ELSE \E ok \in BOOLEAN :
            /\ Fallible(ok)
            /\ LET g == dp[d].group
                   k == dp[d].key
                   what == received_message_decision(g, k)
                   reply(kind, data) ==
                     /\ notes' = Append(notes, Note(g, kind, data, d))
                     /\ dp' = [dp EXCEPT ![d].pc = "done",
                                         ![d].inst = IF k \in Keys THEN store[k] ELSE NoInst]
               IN  IF ~ok THEN /\ notes' = Append(notes, Note(g, "internal_server_error", NoInst, d))
                               /\ dp' = [dp EXCEPT ![d].pc = "done", ![d].res = "fetch_failed"]
                   ELSE IF what \in {"not_found", "permission_error"} THEN reply(what, NoInst)
                   ELSE IF what = "result" THEN reply("result", store[k])
                   ELSE /\ dp' = [dp EXCEPT ![d].pc = "mark", ![d].inst = store[k]]
                        /\ UNCHANGED notes
  /\ UNCHANGED <<connVars, regVars, orch, hard, store, link, frames, chan, cp, hp,
                 dispatches, events>>

\* update_processing_state(db_wrapper, &task_id, false): a failure is logged
received_message_mark(d) ==
  /\ orch = "ws" /\ dp[d].pc = "mark"
  /\ \E ok \in BOOLEAN :
       /\ Fallible(ok)
       /\ store' = IF ok THEN [store EXCEPT ![dp[d].key].processing = FALSE]
                         ELSE store
       /\ dp' = [dp EXCEPT ![d].pc = "enqueue",
                           ![d].writes = IF ok THEN @ + 1 ELSE @,
                           ![d].flag = IF ok THEN "false" ELSE "failed"]
  /\ UNCHANGED <<connVars, regVars, orch, hard, link, frames, notes, chan, cp, hp,
                 dispatches, events>>

\* tx_image_channels.send(task) and notify_image_processing
received_message_enqueue(d) ==
  /\ orch = "ws" /\ dp[d].pc = "enqueue"
  /\ chan' = Append(chan, [key |-> dp[d].key, inst |-> dp[d].inst])
  /\ notes' = Append(notes, Note(dp[d].group, "pending", dp[d].inst, d))
  /\ dp' = [dp EXCEPT ![d].pc = "done", ![d].queued = @ + 1]
  /\ UNCHANGED <<connVars, regVars, orch, hard, store, link, frames, cp, hp,
                 dispatches, events, faults>>

\* new_image_uploaded: rx.recv()
new_image_uploaded ==
  /\ orch = "ws" /\ cp.pc = "recv" /\ chan # <<>>
  /\ cp' = [pc |-> "send", key |-> Head(chan).key, inst |-> Head(chan).inst]
  /\ chan' = Tail(chan)
  /\ UNCHANGED <<connVars, regVars, orch, hard, store, link, frames, notes, dp, hp,
                 dispatches, events, faults>>

\* send_new_task_to_bp_server: media_file_path, send_remove_task (read the
\* file, lock, write if Some), and send_internal_server_error on any failure
send_new_task_to_bp_server ==
  /\ orch = "ws" /\ cp.pc = "send" /\ link # "busy"
  /\ \E fileOk \in BOOLEAN :
       /\ Fallible(fileOk)
       /\ IF fileOk /\ link = "connected"
            THEN /\ frames' = Append(frames, Frame(cp.key, "task_id+timestamps", "consumer"))
                 /\ UNCHANGED notes
            ELSE /\ notes' = Append(notes, Note(cp.inst.group, "internal_server_error",
                                                NoInst, "consumer"))
                 /\ UNCHANGED frames
  /\ cp' = IdleCp
  /\ UNCHANGED <<connVars, regVars, orch, hard, store, link, chan, dp, hp,
                 dispatches, events>>

\* ---- result handling: a success event for key k with its attachments
HpRest == <<connVars, regVars, orch, hard, link, frames, dp, chan, cp,
            dispatches, events>>

\* the message has no status, or no task_id that is a UUID
Discarded(e) == e.status = NoField \/ e.key \in {Malformed, NoField}

\* a decode loop that reads on without awaiting the handler
HandlerReturned_not_awaited == TRUE

\* callback(files, message_json).await / handle_response_received_from_server(..).await:
\* the loop decodes the next frame only when the handler's future is done
HandlerReturned == hp.pc \in {"idle", "done"}

\* the decode loop hands the message of a frame and its attachments to the
\* registered handler
worker_event(e) ==
  /\ HandlerReturned /\ dispatches + events < MaxTaskOps
  /\ events' = events + 1
  /\ hp' = [pc |-> "fetch", key |-> e.key, ev |-> e, inst |-> NoInst,
            fresh |-> NoInst, n0 |-> Len(notes), steps |-> <<>>,
            s0 |-> store, d0 |-> dispatches,
            quiet |-> \A d \in Callers : dp[d].pc \in {"idle", "done"},
            after |-> hp.pc = "done" /\ Discarded(hp.ev)]
  /\ UNCHANGED <<connVars, regVars, orch, hard, store, link, frames, notes, dp,
                 chan, cp, dispatches, faults>>

\* broadcast_internal_server_error(shared_context, &instance.task_group)
InternalServerError ==
  /\ notes' = Append(notes, Note(hp.inst.group, "internal_server_error", NoInst, "handler"))
  /\ hp' = [hp EXCEPT !.pc = "done"]

\* BPResponse with every field optional
BPResponse_all_optional(e) == TRUE

\* serde_json::from_value::<BPResponse>: task_id: Uuid, status: String,
\* status_code: String are required
BPResponse(e) ==
  e.key \notin {Malformed, NoField} /\ e.status # NoField /\ e.code # NoField

\* json!({"status", "status_code", "message"}) built from the BPResponse: the
\* other fields of the worker's message are not in it
Forwarded(e) == [e EXCEPT !.key = NoField, !.files = 0]

\* the worker's message as it was received (a WebSocket message has no
\* attachments)
Unchanged(e) == [e EXCEPT !.files = 0]

\* a worker's message sent on to the sessions of group to
Raw(to, payload) ==
  [to |-> to, kind |-> "forwarded", data |-> NoInst, by |-> "handler", msg |-> payload]

\* handle_response_received_from_bp_server, status != "success": what is
\* sent to ws_clients.get_all(&instance.task_group)
forwarded_response(e, inst) == Raw(inst.group, Forwarded(e))

\* handle_failed_result: build_standard_response("failed",
\* "internal_server_error", .., data = instance.serialize(), None)
failed_response(inst) == Note(inst.group, "internal_server_error", inst, "handler")

\* handle_response_received_from_bp_server: parse the message, fetch the task
\* (return if absent), then handle success or send the rest on
bp_response_fetch ==
  /\ orch = "api" /\ hp.pc = "fetch"
  /\ IF ~BPResponse(hp.ev)
       THEN hp' = [hp EXCEPT !.pc = "done"] /\ UNCHANGED <<notes, faults>>
       ELSE \E ok \in BOOLEAN :
              /\ Fallible(ok)
              /\ IF ~(ok /\ hp.key \in Keys)
                   THEN hp' = [hp EXCEPT !.pc = "done"] /\ UNCHANGED notes
                   ELSE IF hp.ev.status = "success"
                   THEN /\ hp' = [hp EXCEPT !.pc = "save", !.inst = store[hp.key]]
                        /\ UNCHANGED notes
                   ELSE /\ hp' = [hp EXCEPT !.pc = "done", !.inst = store[hp.key]]
                        /\ notes' = Append(notes, forwarded_response(hp.ev, store[hp.key]))
  /\ UNCHANGED <<HpRest, store>>

\* save_files_received_from_bp_server: files.len() < 2 (fake processed) or
\* < 3 is an error
FilesRequired(e) == IF e.code = "fake_process_completed" THEN 2 ELSE 3

\* handle_files_received_from_bp_server: save_files_received_from_bp_server
files_received_save ==
  /\ orch = "api" /\ hp.pc = "save"
  /\ IF hp.ev.files < FilesRequired(hp.ev)
       THEN InternalServerError /\ UNCHANGED faults
       ELSE \E ok \in BOOLEAN :
              /\ Fallible(ok)
              /\ IF ok THEN hp' = [hp EXCEPT !.pc = "update_task"] /\ UNCHANGED notes
                       ELSE InternalServerError
  /\ UNCHANGED <<HpRest, store>>

\* BackgroundRemoverTask::update_task: the result paths and logs
files_received_update_task ==
  /\ orch = "api" /\ hp.pc = "update_task"
  /\ \E ok \in BOOLEAN :
       /\ Fallible(ok)
       /\ IF ok THEN /\ store' = [store EXCEPT ![hp.key].done = TRUE]
                     /\ hp' = [hp EXCEPT !.pc = "clear", !.steps = Append(@, "update_task")]
                     /\ UNCHANGED notes
                ELSE InternalServerError /\ UNCHANGED store
  /\ UNCHANGED HpRest

\* BackgroundRemoverTask::update_processing_state(.., false)
files_received_clear ==
  /\ orch = "api" /\ hp.pc = "clear"
  /\ \E ok \in BOOLEAN :
       /\ Fallible(ok)
       /\ IF ok THEN /\ store' = [store EXCEPT ![hp.key].processing = FALSE]
                     /\ hp' = [hp EXCEPT !.pc = "refetch", !.steps = Append(@, "clear")]
                     /\ UNCHANGED notes
                ELSE InternalServerError /\ UNCHANGED store
  /\ UNCHANGED HpRest

\* BackgroundRemoverTask::fetch of the fresh instance
files_received_refetch ==
  /\ orch = "api" /\ hp.pc = "refetch"
  /\ \E ok \in BOOLEAN :
       /\ Fallible(ok)
       /\ IF ok THEN /\ hp' = [hp EXCEPT !.pc = "bcast", !.fresh = store[hp.key]]
                     /\ UNCHANGED notes
                ELSE InternalServerError
  /\ UNCHANGED <<HpRest, store>>

\* ws_clients.get_all(&fresh_instance.task_group) and the send_json loop
files_received_broadcast ==
  /\ orch = "api" /\ hp.pc = "bcast"
  /\ notes' = Append(notes, Note(hp.fresh.group, "result", hp.fresh, "handler"))
  /\ hp' = [hp EXCEPT !.pc = "done", !.steps = Append(@, "broadcast")]
  /\ UNCHANGED <<HpRest, store, faults>>

\* handle_response_received_from_server: which handler the message goes to
ResponseRoute(e) ==
  IF e.status = NoField \/ e.key \in {Malformed, NoField} THEN "none"
  ELSE IF e.status \in {"success", "progress_update", "failed"} THEN e.status
  ELSE "none"

\* handle_response_received_from_server: status or task_id missing, task_id
\* no UUID, or "Event type not handled"
response_not_handled ==
  /\ orch = "ws" /\ hp.pc = "fetch" /\ ResponseRoute(hp.ev) = "none"
  /\ hp' = [hp EXCEPT !.pc = "done"]
  /\ UNCHANGED <<HpRest, store, notes, faults>>

\* handle_progress_update: fetch the task, broadcast_ws the message
handle_progress_update ==
  /\ orch = "ws" /\ hp.pc = "fetch" /\ ResponseRoute(hp.ev) = "progress_update"
  /\ \E ok \in BOOLEAN :
       /\ Fallible(ok)
       /\ IF ok /\ hp.key \in Keys
            THEN /\ hp' = [hp EXCEPT !.pc = "done", !.inst = store[hp.key]]
                 /\ notes' = Append(notes, Raw(store[hp.key].group, Unchanged(hp.ev)))
            ELSE hp' = [hp EXCEPT !.pc = "done"] /\ UNCHANGED notes
  /\ UNCHANGED <<HpRest, store>>

\* handle_failed_result: fetch the task, broadcast_ws the standard
\* internal_server_error response with the serialized instance as data
handle_failed_result ==
  /\ orch = "ws" /\ hp.pc = "fetch" /\ ResponseRoute(hp.ev) = "failed"
  /\ \E ok \in BOOLEAN :
       /\ Fallible(ok)
       /\ IF ok /\ hp.key \in Keys
            THEN /\ hp' = [hp EXCEPT !.pc = "done", !.inst = store[hp.key]]
                 /\ notes' = Append(notes, failed_response(store[hp.key]))
            ELSE hp' = [hp EXCEPT !.pc = "done"] /\ UNCHANGED notes
  /\ UNCHANGED <<HpRest, store>>

\* handle_success_result: fetch of old_instance, return on error
success_result_fetch ==
  /\ orch = "ws" /\ hp.pc = "fetch" /\ ResponseRoute(hp.ev) = "success"
  /\ \E ok \in BOOLEAN :
       /\ Fallible(ok)
       /\ hp' = IF ok /\ hp.key \in Keys
                  THEN [hp EXCEPT !.pc = "save", !.inst = store[hp.key]]
                  ELSE [hp EXCEPT !.pc = "done"]
  /\ UNCHANGED <<HpRest, store, notes>>

\* handle_success_result: save_task_images_to_media (files.len() < 2 is an
\* error), return on error
success_result_save ==
  /\ orch = "ws" /\ hp.pc = "save"
  /\ IF hp.ev.files < 2
       THEN hp' = [hp EXCEPT !.pc = "done"] /\ UNCHANGED faults
       ELSE \E ok \in BOOLEAN :
              /\ Fallible(ok)
              /\ hp' = [hp EXCEPT !.pc = IF ok THEN "update_task" ELSE "done"]
  /\ UNCHANGED <<HpRest, store, notes>>

\* handle_success_result: update_task, return on error
success_result_update_task ==
  /\ orch = "ws" /\ hp.pc = "update_task"
  /\ \E ok \in BOOLEAN :
       /\ Fallible(ok)
       /\ IF ok THEN /\ store' = [store EXCEPT ![hp.key].done = TRUE]
                     /\ hp' = [hp EXCEPT !.pc = "refetch", !.steps = Append(@, "update_task")]
                ELSE /\ hp' = [hp EXCEPT !.pc = "done"]
                     /\ UNCHANGED store
  /\ UNCHANGED <<HpRest, notes>>

\* handle_success_result: fetch of background_remover_task, return on error
success_result_refetch ==
  /\ orch = "ws" /\ hp.pc = "refetch"
  /\ \E ok \in BOOLEAN :
       /\ Fallible(ok)
       /\ hp' = IF ok THEN [hp EXCEPT !.pc = "clear", !.fresh = store[hp.key]]
                      ELSE [hp EXCEPT !.pc = "done"]
  /\ UNCHANGED <<HpRest, store, notes>>

\* update_processing_state(db_wrapper, &task_id, false): a failure is logged
success_result_clear ==
  /\ orch = "ws" /\ hp.pc = "clear"
  /\ \E ok \in BOOLEAN :
       /\ Fallible(ok)
       /\ store' = IF ok THEN [store EXCEPT ![hp.key].processing = FALSE] ELSE store
       /\ hp' = [hp EXCEPT !.pc = "bcast",
                           !.steps = IF ok THEN Append(@, "clear") ELSE @]
  /\ UNCHANGED <<HpRest, notes>>

\* broadcast_ws_success: serialize the instance fetched before the flag was
\* cleared, broadcast_ws to its task_group
broadcast_ws_success ==
  /\ orch = "ws" /\ hp.pc = "bcast"
  /\ notes' = Append(notes, Note(hp.fresh.group, "result", hp.fresh, "handler"))
  /\ hp' = [hp EXCEPT !.pc = "done", !.steps = Append(@, "broadcast")]
  /\ UNCHANGED <<HpRest, store, faults>>

InitTask == TaskInit /\ ConnIdle /\ RegIdle

NextTask ==
  \/ \E l \in LinkStates : link_changes(l)
  \/ \E d \in Callers, g \in Groups, k \in Keys \cup {NoKey, Malformed, NoField} :
       process_command(d, g, k)
  \/ \E d \in Callers : process_image_fetch(d)
  \/ \E d \in Callers : process_image_send(d)
  \/ \E d \in Callers : process_image_update(d)
  \/ \E d \in Callers : received_message_fetch(d)
  \/ \E d \in Callers : received_message_mark(d)
  \/ \E d \in Callers : received_message_enqueue(d)
  \/ new_image_uploaded
  \/ send_new_task_to_bp_server
  \/ \E e \in Events : worker_event(e)
  \/ bp_response_fetch
  \/ files_received_save
  \/ files_received_update_task
  \/ files_received_clear
  \/ files_received_refetch
  \/ files_received_broadcast
  \/ response_not_handled
  \/ handle_progress_update
  \/ handle_failed_result
  \/ success_result_fetch
  \/ success_result_save
  \/ success_result_update_task
  \/ success_result_refetch
  \/ success_result_clear
  \/ broadcast_ws_success

SpecTask == InitTask /\ [][NextTask]_vars

\* every step of a command handler, of the channel consumer and of the
\* result handler is taken once it can be: the runtime schedules every task;
\* commands, worker events and changes of the link are the environment's
TaskStep ==
  \/ \E d \in Callers : process_image_fetch(d)
  \/ \E d \in Callers : process_image_send(d)
  \/ \E d \in Callers : process_image_update(d)
  \/ \E d \in Callers : received_message_fetch(d)
  \/ \E d \in Callers : received_message_mark(d)
  \/ \E d \in Callers : received_message_enqueue(d)
  \/ new_image_uploaded
  \/ send_new_task_to_bp_server
  \/ bp_response_fetch
  \/ files_received_save
  \/ files_received_update_task
  \/ files_received_clear
  \/ files_received_refetch
  \/ files_received_broadcast
  \/ response_not_handled
  \/ handle_progress_update
  \/ handle_failed_result
  \/ success_result_fetch
  \/ success_result_save
  \/ success_result_update_task
  \/ success_result_refetch
  \/ success_result_clear
  \/ broadcast_ws_success

FairSpecTask == SpecTask /\ WF_vars(TaskStep)

\* ------------------------------------------------------------ claims about the orchestrator
\* what one call of maybe_dispatch has sent to sessions and to the worker
CallNotes(d) ==
  SelectSeq(SubSeq(notes, dp[d].n0 + 1, Len(notes)), LAMBDA n : n.by = d)
CallFrames(d) ==
  SelectSeq(SubSeq(frames, dp[d].f0 + 1, Len(frames)), LAMBDA f : f.by = d)
\* the call has returned and its fetch of the row did not fail
Returned(d) == dp[d].pc = "done" /\ dp[d].res # "fetch_failed"

\* C14: a maybe_dispatch that has returned, called by a group other than
\* the owner of an existing task, has sent exactly one 'permission error'
\* notification, has written and queued nothing for the worker and has
\* written nothing to the store, whatever the task's flags and the override.
C14_OwnershipGate ==
  \A d \in Callers :
    (Returned(d) /\ dp[d].key \in Keys /\ Owner[dp[d].key] # dp[d].group) =>
      /\ CallNotes(d) = <<Note(dp[d].group, "permission_error", NoInst, d)>>
      /\ CallFrames(d) = <<>>
      /\ dp[d].queued = 0
      /\ dp[d].writes = 0

C14_Witness ==
  \E d \in Callers :
    /\ Returned(d) /\ dp[d].key \in Keys /\ Owner[dp[d].key] # dp[d].group
    /\ hard /\ store[dp[d].key].done
    /\ CallNotes(d) # <<>>

\* C15: every message that carries the serialized record of a task goes to
\* the sessions of the group that owns the task, be it the answer to a
\* 'process' command or the broadcast of a worker event.
C15_NoCrossGroupRecord ==
  \A i \in 1..Len(notes) :
    notes[i].data # NoInst => notes[i].data.group = notes[i].to

C15_Witness ==
  /\ \E i \in 1..Len(notes) : notes[i].kind = "permission_error"
  /\ \E i \in 1..Len(notes) : notes[i].data # NoInst /\ notes[i].by = "handler"

\* C16: a maybe_dispatch that has returned, for a key that no stored task
\* has, has sent exactly one 'not found' notification, has written and
\* queued nothing for the worker and has written nothing to the store.
C16_NotFound ==
  \A d \in Callers :
    (Returned(d) /\ dp[d].key = NoKey) =>
      /\ CallNotes(d) = <<Note(dp[d].group, "not_found", NoInst, d)>>
      /\ CallFrames(d) = <<>>
      /\ dp[d].queued = 0
      /\ dp[d].writes = 0

C16_Witness ==
  \E d \in Callers :
    /\ Returned(d) /\ dp[d].key = NoKey
    /\ notes # <<>> /\ notes[Len(notes)].kind = "not_found"

\* the call was made by the group that owns the task it names
ByOwner(d) == dp[d].key \in Keys /\ Owner[dp[d].key] = dp[d].group

\* C17: a maybe_dispatch by the owning group that has returned and that read
\* a record whose processing had completed, with no override, has sent
\* exactly one 'result' notification carrying the record it read (so two
\* calls in a row send identical notifications), has written and queued
\* nothing for the worker and has written nothing to the store.
C17_IdempotentResult ==
  \A d \in Callers :
    (Returned(d) /\ ByOwner(d) /\ dp[d].inst.done /\ ~hard) =>
      /\ CallNotes(d) = <<Note(dp[d].group, "result", dp[d].inst, d)>>
      /\ CallFrames(d) = <<>>
      /\ dp[d].queued = 0
      /\ dp[d].writes = 0

\* C18: with the manager Connected throughout and nothing failing, a
\* maybe_dispatch by the owning group that has returned and that read a
\* record needing processing (an override, or neither completed nor in
\* flight) has written exactly one frame, with payload {task_id: key} and
\* one attachment, and has set the task's processing flag to true.
C18_DispatchSends ==
  \A d \in Callers :
    ( /\ Returned(d) /\ ByOwner(d)
      /\ link = "connected" /\ faults = 0
      /\ hard \/ (~dp[d].inst.done /\ ~dp[d].inst.processing) ) =>
      /\ CallFrames(d) = <<Frame(dp[d].key, "task_id", d)>>
      /\ dp[d].flag = "true"

\* C19: a maybe_dispatch whose send found the manager not connected, its
\* transport dead or its lock taken beyond the timeout has not set the
\* processing flag and has notified nobody; nor does the channel consumer
\* notify anybody when its send fails.
C19_SendFailureKeepsFlag ==
  /\ \A d \in Callers :
       (Returned(d) /\ dp[d].found \in {"absent", "dead", "busy"}) =>
         (dp[d].flag # "true" /\ CallNotes(d) = <<>>)
  /\ faults = 0 => \A i \in 1..Len(notes) : notes[i].by # "consumer"

\* what the handler has sent to sessions for the event it holds
HandlerNotes ==
  SelectSeq(SubSeq(notes, hp.n0 + 1, Len(notes)), LAMBDA n : n.by = "handler")

\* C20: the handler of a success event broadcasts 'result' only after the
\* update of the result paths and the clearing of processing have both
\* completed, in that order; when nothing fails, the handling of a success
\* event for an existing task ends with exactly one 'result' broadcast to
\* the task's group.
C20_SuccessThenBroadcast ==
  /\ (\E i \in 1..Len(hp.steps) : hp.steps[i] = "broadcast") =>
       hp.steps = <<"update_task", "clear", "broadcast">>
  /\ ( /\ hp.pc = "done" /\ hp.key \in Keys /\ faults = 0
       /\ hp.ev.status = "success" /\ hp.ev.code = "some" /\ hp.ev.files = 3 ) =>
       /\ hp.steps = <<"update_task", "clear", "broadcast">>
       /\ Len(HandlerNotes) = 1
       /\ HandlerNotes[1].kind = "result" /\ HandlerNotes[1].to = Owner[hp.key]

\* no 'process' command was being handled when the event arrived and none
\* has arrived since
Undisturbed == hp.quiet /\ dispatches = hp.d0

\* the event the handler holds has been handled and its task exists
Handled(status) == hp.pc = "done" /\ hp.ev.status = status /\ hp.key \in Keys

\* what the handler broadcasts for a failed event e of the task inst
FailedBroadcast(e, inst) ==
  LET f == [e EXCEPT !.status = "failed"]
  IN  IF orch = "api"
        THEN IF BPResponse(f) THEN <<forwarded_response(f, inst)>> ELSE <<>>
        ELSE IF ResponseRoute(f) = "failed" THEN <<failed_response(inst)>> ELSE <<>>

\* C21: when nothing fails and no command interferes, the handling of
\* {status: success, task_id: K} with exactly two attachments, K an
\* existing task, ends with K's processing false, K's result paths set and
\* exactly one 'result' message broadcast to K's group.
C21_TwoAttachmentSuccess ==
  ( /\ hp.pc = "done" /\ hp.ev.status = "success" /\ hp.key \in Keys
    /\ hp.ev.files = 2 /\ hp.ev.code = NoField
    /\ faults = 0 /\ Undisturbed ) =>
    /\ ~store[hp.key].processing
    /\ store[hp.key].done
    /\ Len(HandlerNotes) = 1
    /\ HandlerNotes[1].kind = "result" /\ HandlerNotes[1].to = Owner[hp.key]

\* C22: when no command interferes and nothing fails, after a failed or
\* unrecognised-status event for an existing task has been handled the
\* task's processing flag is false; after a progress_update event has been
\* handled the flag is what it was when the event arrived.
C22_TerminalClearsFlag ==
  /\ ( /\ Handled("failed") \/ Handled("weird_value")
       /\ faults = 0 /\ Undisturbed ) => ~store[hp.key].processing
  /\ (Handled("progress_update") /\ Undisturbed) =>
       store[hp.key].processing = hp.s0[hp.key].processing

\* C23: when nothing fails and no command interferes, the handler of an
\* event with an unrecognised status for an existing task has broadcast
\* exactly what it broadcasts for the same event with status failed, and
\* the task's processing flag is false or as it was.
C23_UnknownAsFailed ==
  /\ (Handled("weird_value") /\ faults = 0 /\ Undisturbed) =>
       HandlerNotes = FailedBroadcast(hp.ev, store[hp.key])
  /\ (Handled("weird_value") /\ Undisturbed) =>
       (store[hp.key].processing => hp.s0[hp.key].processing)

\* C24: when nothing fails, what the handler broadcasts for a failed event
\* is one internal_server_error message that carries nothing of the
\* worker's message, so it is what it would have broadcast had the event
\* carried another text or status code.
C24_FailureDetailHidden ==
  (Handled("failed") /\ faults = 0) =>
    /\ Len(HandlerNotes) = 1
    /\ HandlerNotes[1].kind = "internal_server_error"
    /\ HandlerNotes[1].msg = NoEvent
    /\ \A t \in Texts, c \in StatusCodes \ {NoField} :
         HandlerNotes = FailedBroadcast([hp.ev EXCEPT !.text = t, !.code = c], hp.inst)

\* the success handling has ended before its broadcast of 'result'
SuccessCutShort ==
  /\ Handled("success") /\ hp.inst # NoInst
  /\ hp.ev.code = "some" /\ hp.ev.files = 3
  /\ hp.steps # <<"update_task", "clear", "broadcast">>

\* C25: when the handling of a success event with its attachments, for an
\* existing task that was fetched, has ended and a step of it has failed
\* (the save, the update of the record, the clearing of processing or the
\* second fetch), the handler has broadcast exactly one
\* internal_server_error message to the task's group, the one it
\* broadcasts for a failed event, and no 'result'.
C25_UniformFailureSurface ==
  SuccessCutShort =>
    /\ Len(HandlerNotes) = 1
    /\ HandlerNotes[1].kind = "internal_server_error"
    /\ HandlerNotes[1].to = Owner[hp.key]
    /\ HandlerNotes[1].msg = NoEvent
    /\ HandlerNotes = FailedBroadcast(hp.ev, hp.inst)

\* C26: the handler of a progress_update event for a task it has fetched has
\* broadcast the worker's message, as it was received, to the task's group
\* and nothing else, and, when no command interferes, the store is as it
\* was when the event arrived.
C26_ProgressForwarded ==
  /\ (Handled("progress_update") /\ hp.inst # NoInst) =>
       HandlerNotes = <<Raw(Owner[hp.key], Unchanged(hp.ev))>>
  /\ (Handled("progress_update") /\ Undisturbed) => store = hp.s0

AnswerKinds == {"result", "internal_server_error", "permission_error", "not_found",
                "invalid_message_format", "invalid_key_format"}

\* since caller d sent its command, the sessions of its group have been sent
\* an answer
Answered(d) ==
  \E i \in (dp[d].n0 + 1)..Len(notes) :
    notes[i].to = dp[d].group /\ notes[i].kind \in AnswerKinds

\* C28: every 'process' command is followed by a result, an
\* internal_server_error or a rejection sent to the sessions of the group
\* that sent it, whatever the command's key, the state of the link and the
\* worker do afterwards.
C28_CommandAnswered ==
  \A d \in Callers : (dp[d].pc = "fetch") ~> Answered(d)

\* ------------------------------------------------------------ claims about send() and the keepalive task
\* C29: once a write by send() has failed while Connected, the holder no
\* longer holds the transport the write failed on, and no later send()
\* writes to that transport.
C29_WriteFailureTearsDown ==
  /\ holder \notin failedOn
  /\ \A w \in writing : w.who \in Senders => w.t \notin failedOn

\* C30: at most one keepalive task is running, however many times the
\* loop has connected.
C30_SingleKeepalive == nPing <= 1

\* ------------------------------------------------------------ claims about the registry's critical sections
\* C31: no delivery attempt of a broadcast is made to a handle after an
\* unsubscribe of its uid under the broadcast's group has returned: each
\* send of the broadcast goes to a handle whose uid is still subscribed.
C31_BroadcastCriticalSection ==
  [][send_json_next =>
       Head(bcast.todo).uid \in UidsOf(expected[bcast.group])]_vars

\* C38: a session's handle is registered under its group for exactly the
\* time between its registration and its removal: in every state the uids
\* registered under a group are those of the sessions of the group that
\* have started and not ended.
C38_RegisteredWhileLoopRuns ==
  \A g \in Groups : UidsOf(Registered(g)) = UidsOf(expected[g])

ListOf(map, g) == IF g \in DOMAIN map THEN map[g] ELSE <<>>

\* C39: the last unsubscribe(G, u) left the entry and the list of every
\* other group as they were, left the handles of G that have another uid
\* in place and in order, and changed nothing at all when no handle of uid
\* u was registered under G.
C39_UnsubscribeFrame ==
  unsub.done =>
    /\ \A k \in Groups \ {unsub.group} :
         /\ (k \in DOMAIN unsub.after) = (k \in DOMAIN unsub.before)
         /\ ListOf(unsub.after, k) = ListOf(unsub.before, k)
    /\ Without(ListOf(unsub.after, unsub.group), unsub.uid)
         = Without(ListOf(unsub.before, unsub.group), unsub.uid)
    /\ unsub.uid \notin UidsOf(ListOf(unsub.before, unsub.group))
         => unsub.after = unsub.before

\* an unsubscribe has removed a handle from a group that keeps another
\* handle, while another group is registered
C39_Witness ==
  /\ unsub.done
  /\ unsub.uid \in UidsOf(ListOf(unsub.before, unsub.group))
  /\ ListOf(unsub.after, unsub.group) # <<>>
  /\ \E k \in Groups \ {unsub.group} : ListOf(unsub.before, k) # <<>>

\* ------------------------------------------------------------ claims about the processing cycle
\* C32: with no hard-reprocess override, a maybe_dispatch for a task that
\* was called after another one for the task had returned with its frame
\* written, and before any worker event for the task is handled, writes
\* nothing to the worker.
C32_NoSecondSend ==
  ~hard =>
    \A d \in Callers :
      (dp[d].prior /\ NoEventFor(dp[d].key)) => CallFrames(d) = <<>>

\* C33: the only thing that keeps a maybe_dispatch from writing is the flag
\* it read: a call that has written a frame read processing = false (or
\* runs under the override), so two concurrent calls for one task that both
\* read false both write, as in C33_TwoSendsOneCycle.
C33_SendDecidedByFlagRead ==
  \A d \in Callers :
    (orch = "api" /\ CallFrames(d) # <<>>) => (hard \/ ~dp[d].inst.processing)

\* two concurrent calls for one task have both read processing = false and
\* both written their frame, and neither has yet stored processing = true
C33_TwoSendsOneCycle ==
  /\ orch = "api" /\ ~hard /\ faults = 0
  /\ dp["d1"].key = dp["d2"].key /\ dp["d1"].key \in Keys
  /\ dp["d1"].pc = "update" /\ dp["d2"].pc = "update"
  /\ ~dp["d1"].inst.processing /\ ~dp["d2"].inst.processing
  /\ Len(CallFrames("d1")) = 1 /\ Len(CallFrames("d2")) = 1
  /\ ~store[dp["d1"].key].processing

\* every call of maybe_dispatch has returned and the consumer has nothing
\* left to send
DispatchesFinished ==
  /\ \A d \in Callers : dp[d].pc \in {"idle", "done"}
  /\ cp = IdleCp /\ chan = <<>>

\* C35: when every dispatch has finished, nothing has failed, and the last
\* worker event handled was a success for an existing task whose handler
\* ran all its steps, the task's processing flag is false.
C35_FlagNotStuck ==
  ( /\ DispatchesFinished /\ faults = 0
    /\ Handled("success")
    /\ hp.steps = <<"update_task", "clear", "broadcast">> )
  => ~store[hp.key].processing

\* C36: a task's processing flag is true only if a dispatch frame for the
\* task has been written to the worker's transport.
C36_FlagImpliesFrame ==
  \A k \in Keys :
    store[k].processing => \E i \in 1..Len(frames) : frames[i].task_id = k

\* C37: every 'result' broadcast made by the handler of a success event
\* carries a record that has the new result paths and processing = false.
C37_ResultCarriesStoredRecord ==
  Handled("success") =>
    \A i \in 1..Len(HandlerNotes) :
      HandlerNotes[i].kind = "result" =>
        /\ HandlerNotes[i].data.done
        /\ ~HandlerNotes[i].data.processing

\* ------------------------------------------------------------ claims about the decode loop
\* C40: the decode loop hands a frame to the handler only when the handler
\* of the frame before it has returned, so no two result handlers run at
\* the same time and the frames take effect in the order they were read.
C40_OneHandlerAtATime ==
  [][events' # events => hp.pc \in {"idle", "done"}]_vars

\* two success events have been handled one after the other: the second was
\* read after the first one's 'result' broadcast
C40_Witness ==
  /\ events = 2 /\ hp.pc = "done" /\ hp.n0 = 1
  /\ Len(notes) = 2
  /\ \A i \in 1..2 : notes[i].kind = "result" /\ notes[i].by = "handler"

\* ------------------------------------------------------------ routing of worker events
\* a handler that takes a success event to answer the oldest task that has
\* no result yet, whatever task_id the event names
handle_response_in_send_order(st, e) ==
  LET waiting == {k \in Keys : ~st[k].done}
      k == IF "T1" \in waiting THEN "T1" ELSE "T2"
      s2 == [st EXCEPT ![k].done = TRUE, ![k].processing = FALSE]
  IN  IF ~BPResponse(e) \/ e.key \notin Keys THEN [store |-> st, out |-> <<>>]
      ELSE IF e.status # "success"
        THEN [store |-> st, out |-> <<forwarded_response(e, st[e.key])>>]
      ELSE [store |-> s2, out |-> <<Note(s2[k].group, "result", s2[k], "handler")>>]

\* handle_response_received_from_bp_server with no failing step, as a
\* function of the stored records st and the event e: the records after it
\* and what it broadcasts
handle_response_received_from_bp_server(st, e) ==
  IF ~BPResponse(e) \/ e.key \notin Keys THEN [store |-> st, out |-> <<>>]
  ELSE IF e.status # "success"
    THEN [store |-> st, out |-> <<forwarded_response(e, st[e.key])>>]
  ELSE IF e.files < FilesRequired(e)
    THEN [store |-> st,
          out |-> <<Note(st[e.key].group, "internal_server_error", NoInst, "handler")>>]
  ELSE LET s2 == [st EXCEPT ![e.key].done = TRUE, ![e.key].processing = FALSE]
       IN  [store |-> s2,
            out |-> <<Note(s2[e.key].group, "result", s2[e.key], "handler")>>]

\* handle_response_received_from_server with no failing step: the record is
\* fetched for the broadcast before its flag is cleared
handle_response_received_from_server(st, e) ==
  IF ResponseRoute(e) = "none" \/ e.key \notin Keys THEN [store |-> st, out |-> <<>>]
  ELSE IF ResponseRoute(e) = "progress_update"
    THEN [store |-> st, out |-> <<Raw(st[e.key].group, Unchanged(e))>>]
  ELSE IF ResponseRoute(e) = "failed"
    THEN [store |-> st, out |-> <<failed_response(st[e.key])>>]
  ELSE IF e.files < 2 THEN [store |-> st, out |-> <<>>]
  ELSE LET s2 == [st EXCEPT ![e.key].done = TRUE]
       IN  [store |-> [s2 EXCEPT ![e.key].processing = FALSE],
            out |-> <<Note(s2[e.key].group, "result", s2[e.key], "handler")>>]

HandleEvent(st, e) ==
  IF orch = "api" THEN handle_response_received_from_bp_server(st, e)
                  ELSE handle_response_received_from_server(st, e)

\* a broadcast with the task whose event caused it; a broadcast that
\* carries a record shows that task to the sessions (shown)
Sent(k, seq) ==
  [i \in 1..Len(seq) |->
     [of |-> k, shown |-> IF seq[i].data # NoInst THEN k ELSE NoField, note |-> seq[i]]]

\* the decode loop handles e1, then e2
HandleBoth(st, e1, e2) ==
  LET a == HandleEvent(st, e1)
      b == HandleEvent(a.store, e2)
  IN  [store |-> b.store, out |-> Sent(e1.key, a.out) \o Sent(e2.key, b.out)]

\* the broadcasts caused by the events of task k, and those that reach the
\* sessions of group g, in order
OfTask(out, k) == SelectSeq(out, LAMBDA x : x.of = k)
ToGroup(out, g) ==
  LET mine == SelectSeq(out, LAMBDA x : x.note.to = g)
  IN  [i \in 1..Len(mine) |-> [shown |-> mine[i].shown, note |-> mine[i].note]]

\* the tasks of a group are any of the stored tasks: two tasks sent to the
\* worker may belong to one group or to two
RouteInit ==
  /\ orch \in {"api", "ws"}
  /\ hard = FALSE
  /\ store \in [Keys -> [group : Groups, processing : BOOLEAN, done : {FALSE}]]
  /\ orch = "ws" => \A k \in Keys : ~store[k].processing
  /\ link = "connected"
  /\ frames = <<>>
  /\ notes = <<>>
  /\ dp = [d \in Callers |-> IdleDp]
  /\ chan = <<>>
  /\ cp = IdleCp
  /\ hp = IdleHp
  /\ dispatches = 0
  /\ events = 0
  /\ faults = 0

InitRoute == RouteInit /\ ConnIdle /\ RegIdle

NextRoute ==
  \/ \E e \in Events : worker_event(e)
  \/ bp_response_fetch
  \/ files_received_save
  \/ files_received_update_task
  \/ files_received_clear
  \/ files_received_refetch
  \/ files_received_broadcast
  \/ response_not_handled
  \/ handle_progress_update
  \/ handle_failed_result
  \/ success_result_fetch
  \/ success_result_save
  \/ success_result_update_task
  \/ success_result_refetch
  \/ success_result_clear
  \/ broadcast_ws_success

SpecRoute == InitRoute /\ [][NextRoute]_vars

\* what the handler has done when it has returned and no step has failed is
\* what HandleEvent computes from the records it found
HandlerAsComputed ==
  (hp.pc = "done" /\ faults = 0) =>
    /\ store = HandleEvent(hp.s0, hp.ev).store
    /\ HandlerNotes = HandleEvent(hp.s0, hp.ev).out

\* the handler has returned from an event of an existing task and no step
\* has failed
EventHandled == hp.pc = "done" /\ faults = 0 /\ hp.key \in Keys

\* C34 (as the code has it): the event just handled and any event of another
\* task give, handled in either order from the records the handler found,
\* the same final stored records and, for each task, the same sequence of
\* broadcasts.
C34_RoutedByTaskId ==
  /\ HandlerAsComputed
  /\ EventHandled =>
       \A e2 \in Events :
         e2.key # hp.key =>
           LET a == HandleBoth(hp.s0, hp.ev, e2)
               b == HandleBoth(hp.s0, e2, hp.ev)
           IN  /\ a.store = b.store
               /\ \A k \in Keys : OfTask(a.out, k) = OfTask(b.out, k)

\* C34 (as stated): the event just handled and any event of another task
\* give, handled in either order, the same final stored records and, for
\* each group, the same sequence of broadcasts.
C34_SameSequencePerGroup ==
  EventHandled =>
    \A e2 \in Events :
      e2.key # hp.key =>
        LET a == HandleBoth(hp.s0, hp.ev, e2)
            b == HandleBoth(hp.s0, e2, hp.ev)
        IN  /\ a.store = b.store
            /\ \A g \in Groups : ToGroup(a.out, g) = ToGroup(b.out, g)

\* the success events of two tasks of one group have been handled one after
\* the other, with one 'result' broadcast each to that group
C34_Witness ==
  /\ events = 2 /\ hp.pc = "done" /\ faults = 0
  /\ Handled("success")
  /\ \E k \in Keys \ {hp.key} :
       /\ hp.s0[k].done /\ store[k].group = store[hp.key].group
  /\ Len(notes) = 2
  /\ \A i \in 1..2 : notes[i].kind = "result" /\ notes[i].to = store[hp.key].group

====
